---------------------------- MODULE Spec2Model ----------------------------
(***************************************************************************)
(* State-machine model of the gas-playground client (src/app/page.tsx):    *)
(* the React state of IndexPage, its two effects (debounced compile,       *)
(* debounced execute), the two remote calls and the call-list handlers.    *)
(* A text is a sequence of one-character strings.                          *)
(***************************************************************************)
EXTENDS Integers, Sequences, FiniteSets, TLC

VARIABLES
    solidityCode,       \* useState(defaultSolidityCode)
    functionCalls,      \* useState<string[]>: the call list, one text per entry
    bytecode,           \* useState(""): held bytecode
    abi,                \* useState<Abi>([]): held interface
    result,             \* useState<FunctionCallResult[]>([]): the result list
    compilationErrors,  \* useState<SolcError[]>([]): diagnostics
    compileTimers,      \* pending setTimeout handles of the compile effect
    compileReqs,        \* compile requests in flight (awaited axios.post)
    compileIssued,      \* number of compile requests issued so far
    execTimers,         \* pending timers of debouncedHandleFunctionCalls
    execReqs,           \* execute requests in flight
    execIssued,         \* number of execute requests issued so far
    nEdits,             \* number of source-text edits so far
    nCallOps,           \* number of call-list operations so far
    nBursts,            \* number of compile timers started with none pending
    execCommitted,      \* ids of the execute requests whose output was committed
    resultFrom,         \* id of the execute request that set the result list
    lastDelete          \* the last delete: its index, the lengths before it

vars == <<solidityCode, functionCalls, bytecode, abi, result, compilationErrors,
          compileTimers, compileReqs, compileIssued, execTimers, execReqs,
          execIssued, nEdits, nCallOps, nBursts, execCommitted, resultFrom,
          lastDelete>>

----------------------------------------------------------------------------
(* Bounds of the model *)

MaxEdits == 2

MaxCallOps == 1

MaxCompiles == 2

MaxExecs == 2

\* longest call-list line drawn from LineAlphabet
MaxLineLen == 4

----------------------------------------------------------------------------
(* Characters and texts *)

Digits == {"0", "1", "2", "3", "4", "5", "6", "7", "8", "9"}

Letters ==
    {"a", "b", "c", "d", "e", "f", "g", "h", "i", "j", "k", "l", "m",
     "n", "o", "p", "q", "r", "s", "t", "u", "v", "w", "x", "y", "z",
     "A", "B", "C", "D", "E", "F", "G", "H", "I", "J", "K", "L", "M",
     "N", "O", "P", "Q", "R", "S", "T", "U", "V", "W", "X", "Y", "Z"}

WordChars == Letters \cup Digits \cup {"_"}

\* \w of the regular expression
IsWordChar(c) == c \in WordChars

\* the characters the regular expression's . does not match
IsLineTerminator(c) == c \in {"\n", "\r"}

\* the characters String.prototype.trim removes
IsWhiteSpace(c) == c \in {" ", "\t", "\n", "\r"}

\* arg.trim()
RECURSIVE TrimLeft(_)
TrimLeft(s) ==
    IF s # <<>> /\ IsWhiteSpace(Head(s)) THEN TrimLeft(Tail(s)) ELSE s

RECURSIVE TrimRight(_)
TrimRight(s) ==
    IF s # <<>> /\ IsWhiteSpace(s[Len(s)])
    THEN TrimRight(SubSeq(s, 1, Len(s) - 1))
    ELSE s

Trim(s) == TrimRight(TrimLeft(s))

\* call[2].split(","): the pieces between the commas, at least one piece
RECURSIVE SplitComma(_)
SplitComma(s) ==
    IF \E k \in 1..Len(s) : s[k] = ","
    THEN LET k == CHOOSE j \in 1..Len(s) :
                      s[j] = "," /\ \A h \in 1..(j - 1) : s[h] # ","
         IN  <<SubSeq(s, 1, k - 1)>> \o SplitComma(SubSeq(s, k + 1, Len(s)))
    ELSE <<s>>

\* the chain without .filter((arg) => arg !== "")
FilterKeepsAll(ss) == ss

\* .filter((arg) => arg !== "")
RECURSIVE FilterNonEmpty(_)
FilterNonEmpty(ss) ==
    IF ss = <<>> THEN <<>>
    ELSE IF Head(ss) = <<>> THEN FilterNonEmpty(Tail(ss))
    ELSE <<Head(ss)>> \o FilterNonEmpty(Tail(ss))

MapTrim(ss) == [k \in 1..Len(ss) |-> Trim(ss[k])]

\* end of the longest run of word characters that starts at s: the greedy \w+
RECURSIVE RunEnd(_, _)
RunEnd(line, s) ==
    IF s < Len(line) /\ IsWordChar(line[s + 1]) THEN RunEnd(line, s + 1) ELSE s

\* the closing parentheses the greedy (.*)\) can end at, the ( being at p
Closers(line, p) ==
    {c \in (p + 1)..Len(line) :
        /\ line[c] = ")"
        /\ \A k \in (p + 1)..(c - 1) : ~IsLineTerminator(line[k])}

\* /(\w+)\((.*)\)/ matches with the name starting at s
MatchesAt(line, s) ==
    /\ IsWordChar(line[s])
    /\ LET e == RunEnd(line, s)
       IN  /\ e < Len(line)
           /\ line[e + 1] = "("
           /\ Closers(line, e + 1) # {}

Max(S) == CHOOSE x \in S : \A y \in S : y <= x

Min(S) == CHOOSE x \in S : \A y \in S : x <= y

\* line.match(/(\w+)\((.*)\)/): the leftmost match, .* greedy
LineMatch(line) ==
    LET starts == {s \in 1..Len(line) : MatchesAt(line, s)}
    IN  IF starts = {} THEN [ok |-> FALSE, name |-> <<>>, inner |-> <<>>]
        ELSE LET s == Min(starts)
                 e == RunEnd(line, s)
                 c == Max(Closers(line, e + 1))
             IN  [ok |-> TRUE,
                  name |-> SubSeq(line, s, e),
                  inner |-> SubSeq(line, e + 2, c - 1)]

\* the body of functionCalls.forEach: the calls one line pushes (none or one)
ParseLine(line) ==
    LET call == LineMatch(line)
    IN  IF call.ok
        THEN <<[name |-> call.name,
                args |-> FilterNonEmpty(MapTrim(SplitComma(call.inner)))]>>
        ELSE <<>>

\* the calls array the execute effect builds from functionCalls
RECURSIVE ParseCalls(_)
ParseCalls(lines) ==
    IF lines = <<>> THEN <<>>
    ELSE ParseLine(Head(lines)) \o ParseCalls(Tail(lines))

----------------------------------------------------------------------------
(* The interface: function and event descriptors, and viem's codecs *)

\* value of a decimal digit
DigitVal(c) ==
    CASE c = "0" -> 0 [] c = "1" -> 1 [] c = "2" -> 2 [] c = "3" -> 3
      [] c = "4" -> 4 [] c = "5" -> 5 [] c = "6" -> 6 [] c = "7" -> 7
      [] c = "8" -> 8 [] c = "9" -> 9

\* BigInt(text) of a decimal text
RECURSIVE DecimalVal(_)
DecimalVal(s) ==
    IF s = <<>> THEN 0
    ELSE 10 * DecimalVal(SubSeq(s, 1, Len(s) - 1)) + DigitVal(s[Len(s)])

\* the argument texts a uint256 parameter accepts
IsDecimal(s) == s # <<>> /\ \A k \in 1..Len(s) : s[k] \in Digits

\* getAbiItem: the descriptors of the given type and name
AbiItems(iface, type, name) ==
    {k \in 1..Len(iface) : iface[k].type = type /\ iface[k].name = name}

\* encodeFunctionData({abi, functionName, args}): throws (ok = FALSE) when the
\* function is absent, the argument count differs or an argument is no number
EncodeFunctionData(iface, call) ==
    LET found == AbiItems(iface, "function", call.name)
    IN  IF found = {} THEN [ok |-> FALSE, calldata |-> <<>>]
        ELSE LET item == iface[Min(found)]
             IN  IF /\ Len(item.inputs) = Len(call.args)
                    /\ \A k \in 1..Len(call.args) : IsDecimal(call.args[k])
                 THEN [ok |-> TRUE,
                       calldata |-> <<call.name>> \o
                           [k \in 1..Len(call.args) |-> DecimalVal(call.args[k])]]
                 ELSE [ok |-> FALSE, calldata |-> <<>>]

\* String(returned) of the decoded values: one value, or several joined by ","
RECURSIVE JoinValues(_)
JoinValues(vals) ==
    IF Len(vals) = 1 THEN ToString(vals[1])
    ELSE ToString(Head(vals)) \o "," \o JoinValues(Tail(vals))

\* decodeFunctionResult({abi, functionName, data}): throws (ok = FALSE) when the
\* function is absent or the data does not hold its outputs; no output gives
\* undefined (defined = FALSE)
DecodeFunctionResult(iface, name, data) ==
    LET found == AbiItems(iface, "function", name)
        fail == [ok |-> FALSE, defined |-> FALSE, text |-> ""]
    IN  IF found = {} THEN fail
        ELSE LET n == Len(iface[Min(found)].outputs)
             IN  IF data.size = 0 /\ n > 0 THEN fail
                 ELSE IF data.size > 0 /\ data.size < 32 THEN fail
                 ELSE IF data.size < 32 * n THEN fail
                 ELSE IF n = 0
                      THEN [ok |-> TRUE, defined |-> FALSE, text |-> ""]
                      ELSE [ok |-> TRUE, defined |-> TRUE,
                            text |-> JoinValues(SubSeq(data.words, 1, n))]

\* decodeEventLog({abi, data, topics}): throws (ok = FALSE) when no event of the
\* interface has the signature topics[0], or the data does not hold its inputs
DecodeEventLog(iface, log) ==
    LET fail == [ok |-> FALSE, eventName |-> "", args |-> <<>>]
        found == IF log.topics = <<>> THEN {}
                 ELSE {k \in 1..Len(iface) :
                          iface[k].type = "event" /\ iface[k].topic = log.topics[1]}
    IN  IF found = {} THEN fail
        ELSE LET item == iface[Min(found)]
                 n == Len(item.inputs)
             IN  IF log.data.size < 32 * n THEN fail
                 ELSE [ok |-> TRUE, eventName |-> item.name,
                       args |-> SubSeq(log.data.words, 1, n)]

----------------------------------------------------------------------------
(* The values the model draws its inputs from *)

\* the source texts: the default contract and two texts the user may type
defaultSolidityCode == <<"contract SimpleStorage { ... }">>

Texts == {defaultSolidityCode, <<"contract A {}">>, <<"contract B {}">>}

\* `pragma solidity 0.8.26;\n${solidityCode}`
UpdatedCode(code) == <<"pragma solidity 0.8.26;", "\n">> \o code

GetLine == <<"g", "e", "t", "(", ")">>

SetLine == <<"s", "e", "t", "(", "1", ")">>

GetBlockNumberLine ==
    <<"g", "e", "t", "B", "l", "o", "c", "k", "N", "u", "m", "b", "e", "r", "(", ")">>

\* the initial call list
defaultFunctionCalls == <<GetLine, SetLine, GetLine, GetBlockNumberLine>>

\* the texts the user may give a call-list entry: one that does not parse,
\* one that parses and lacks the argument of set
EditLines == {<<"f", "o", "o", "b", "a", "r">>, <<"s", "e", "t", "(", ")">>}

\* the characters of the lines the user types in the parser specification
LineAlphabet == {"f", "(", ")", ",", " "}

\* longer lines: blank arguments, two arguments, a line terminator between the
\* parentheses, a first pair of parentheses broken by a line terminator
LongLines ==
    {<<"f", "(", " ", ",", " ", ")">>,
     <<"f", "(", "f", ",", " ", "f", ")">>,
     <<"f", "(", "\n", ")">>,
     <<"f", "(", "\n", ")", " ", "g", "(", "3", " ", ")">>}

\* the texts a call-list entry may hold
TypedLines ==
    LongLines \cup UNION {[1..n -> LineAlphabet] : n \in 0..MaxLineLen}

\* the call lists of the parser specification: a typed line before or after
\* a line of the initial list
TypedCallLists ==
    {<<line, GetLine>> : line \in TypedLines}
        \cup {<<GetLine, line>> : line \in TypedLines}

Fn(name, inputs, outputs) ==
    [type |-> "function", name |-> name, inputs |-> inputs,
     outputs |-> outputs, topic |-> ""]

Event(name, inputs, topic) ==
    [type |-> "event", name |-> name, inputs |-> inputs,
     outputs |-> <<>>, topic |-> topic]

\* the interface of the default contract SimpleStorage
AbiStorage ==
    <<Event(<<"S", "t", "o", "r", "e", "d", "D", "a", "t", "a",
              "U", "p", "d", "a", "t", "e", "d">>,
            <<"uint256">>, "topic:StoredDataUpdated(uint256)"),
      Fn(<<"g", "e", "t">>, <<>>, <<"uint256">>),
      Fn(<<"g", "e", "t", "B", "l", "o", "c", "k", "N", "u", "m", "b", "e", "r">>,
         <<>>, <<"uint256">>),
      Fn(<<"s", "e", "t">>, <<"uint256">>, <<>>)>>

\* the interface of another contract: one function, no event
AbiOther == <<Fn(<<"s", "e", "t">>, <<"uint256">>, <<"uint256">>)>>

\* JSON.parse(lastContract.abi): the value of a JSON text, or a SyntaxError
JsonParse(text) ==
    CASE text = "[{StoredDataUpdated},{get},{getBlockNumber},{set}]" ->
            [ok |-> TRUE, value |-> AbiStorage]
      [] text = "[{set}]" -> [ok |-> TRUE, value |-> AbiOther]
      [] text = "[]" -> [ok |-> TRUE, value |-> <<>>]
      [] OTHER -> [ok |-> FALSE, value |-> <<>>]

\* ContractData
UnitStorage ==
    [name |-> "SimpleStorage",
     abi |-> "[{StoredDataUpdated},{get},{getBlockNumber},{set}]",
     bytecode |-> "0x6001"]

UnitOther == [name |-> "Other", abi |-> "[{set}]", bytecode |-> "0x6002"]

UnitBroken == [name |-> "Broken", abi |-> "[{set", bytecode |-> "0x6003"]

\* a unit without code (an interface declaration): its bytecode is empty
UnitInterface == [name |-> "IOther", abi |-> "[{set}]", bytecode |-> ""]

\* SolcError
SolcWarning ==
    [errorType |-> "Warning", message |-> "unused variable",
     details |-> <<<<"line", 3>>>>]

SolcSyntaxError ==
    [errorType |-> "Error", message |-> "expected ;",
     details |-> <<<<"line", 5>>>>]

\* SolcCompileResponse: the bodies of the successful compile responses
CompileResponses ==
    {[data |-> <<>>, errors |-> <<SolcSyntaxError>>],
     [data |-> <<UnitOther, UnitStorage>>, errors |-> <<>>],
     [data |-> <<UnitStorage, UnitOther>>, errors |-> <<SolcWarning>>],
     [data |-> <<UnitStorage, UnitBroken>>, errors |-> <<SolcWarning>>],
     [data |-> <<UnitStorage, UnitInterface>>, errors |-> <<>>]}

\* the failures of a compile request: an AxiosError with a response (and its
\* message, possibly empty), an AxiosError without one
CompileFailures ==
    {[response |-> TRUE, message |-> "Internal Server Error"],
     [response |-> TRUE, message |-> ""],
     [response |-> FALSE, message |-> "Network Error"]}

\* Hex return data: its size in bytes and its 32-byte words as numbers
HexEmpty == [size |-> 0, words |-> <<>>]

HexSelector == [size |-> 4, words |-> <<>>]

HexWord(v) == [size |-> 32, words |-> <<v>>]

\* raw log entries: one of the event of SimpleStorage, one of no known event
LogStored ==
    [address |-> "0xc0de", topics |-> <<"topic:StoredDataUpdated(uint256)">>,
     data |-> HexWord(1)]

LogUnknown ==
    [address |-> "0xc0de", topics |-> <<"topic:Transfer(address,address,uint256)">>,
     data |-> HexWord(7)]

\* ExecutionResponse: a call that returned one word
RawReturn ==
    [exitReason |-> "Return", reverted |-> FALSE, result |-> HexWord(1),
     gasUsed |-> "21000", logs |-> <<>>, traces |-> <<"call">>]

\* a call that returned nothing and emitted the event of the interface
RawStored ==
    [exitReason |-> "Stop", reverted |-> FALSE, result |-> HexEmpty,
     gasUsed |-> "43000", logs |-> <<LogStored>>, traces |-> <<"call">>]

\* a call that reverted with a 4-byte error selector
RawRevert ==
    [exitReason |-> "Revert", reverted |-> TRUE, result |-> HexSelector,
     gasUsed |-> "300", logs |-> <<>>, traces |-> <<"call">>]

\* a call that returned one word and emitted an event the interface lacks
RawForeignLog ==
    [exitReason |-> "Return", reverted |-> FALSE, result |-> HexWord(1),
     gasUsed |-> "50000", logs |-> <<LogUnknown>>, traces |-> <<"call">>]

\* the answer of a service that runs SimpleStorage: set emits its event and
\* returns nothing, every other call returns one word
Faithful(calls) ==
    [k \in 1..Len(calls) |->
        IF calls[k].calldata[1] = <<"s", "e", "t">> THEN RawStored ELSE RawReturn]

\* the bodies of the execute responses to a request, one entry per call: the
\* faithful answer, one word for every call, the faithful answer with the
\* last call reverted, the faithful answer with a foreign log in the first call
ExecResponses(calls) ==
    {Faithful(calls),
     [k \in 1..Len(calls) |-> RawReturn],
     [Faithful(calls) EXCEPT ![Len(calls)] = RawRevert],
     [Faithful(calls) EXCEPT ![1] = RawForeignLog]}

----------------------------------------------------------------------------
(* The handlers of IndexPage *)

\* return () => clearTimeout(delayDebounceFn), without the clearTimeout
CompileCleanupKeeps(timers) == timers

\* return () => clearTimeout(delayDebounceFn): the timer of the previous run
\* of the compile effect is cleared
CompileCleanup(timers) == {}

\* the compile effect, run when solidityCode changed: the cleanup of the
\* previous run, then setTimeout(() => compileSolidity(), 1000)
CompileEffect(timers, code) == CompileCleanup(timers) \cup {[code |-> code]}

\* debouncedHandleFunctionCalls(calls): the pending timer is cleared and one is
\* started that calls the handleFunctionCalls of this render
Debounced(timers, task) == {task}

\* the execute effect with a scheduler that starts the new timer and leaves
\* the pending one running
ExecEffectKeepsTimers(timers, bc, iface, lines) ==
    LET calls == ParseCalls(lines)
    IN  IF bc # "" /\ Len(calls) > 0
        THEN timers \cup {[parsedCalls |-> calls, abi |-> iface, bytecode |-> bc]}
        ELSE timers

\* the execute effect, run when bytecode or functionCalls changed, in the
\* render that holds bc, iface and lines
ExecEffect(timers, bc, iface, lines) ==
    LET calls == ParseCalls(lines)
    IN  IF bc # "" /\ Len(calls) > 0
        THEN Debounced(timers, [parsedCalls |-> calls, abi |-> iface, bytecode |-> bc])
        ELSE timers

\* the try block of compileSolidity after the response arrived: the setters
\* called before JSON.parse throws or the block ends
CompileCommit(held, resp) ==
    LET n == Len(resp.data)
    IN  IF n > 0
        THEN LET lastContract == resp.data[n]
                 parsed == JsonParse(lastContract.abi)
             IN  IF parsed.ok
                 THEN [bytecode |-> lastContract.bytecode,
                       abi |-> parsed.value,
                       compilationErrors |-> resp.errors]
                 ELSE [bytecode |-> lastContract.bytecode,
                       abi |-> held.abi,
                       compilationErrors |-> held.compilationErrors]
        ELSE [bytecode |-> held.bytecode,
              abi |-> held.abi,
              compilationErrors |-> resp.errors]

\* the catch block of compileSolidity
CompileCatch(errors, failure) ==
    IF failure.response
    THEN <<[errorType |-> "Error",
            message |-> IF failure.message # "" THEN failure.message
                        ELSE "Unknown error occurred",
            details |-> <<>>]>>
    ELSE errors

\* the calls array handleFunctionCalls builds: one EncodedCall per parsed call
EncodeCalls(iface, parsedCalls) ==
    [k \in 1..Len(parsedCalls) |->
        LET enc == EncodeFunctionData(iface, parsedCalls[k])
        IN  [ok |-> enc.ok, calldata |-> enc.calldata, value |-> "0",
             caller |-> "0x0000000000000000000000000000000000000000"]]

\* one iteration of the decoding loop of handleFunctionCalls
DecodeOne(iface, call, raw) ==
    LET returned == DecodeFunctionResult(iface, call.name, raw.result)
        logs == [k \in 1..Len(raw.logs) |-> DecodeEventLog(iface, raw.logs[k])]
    IN  [ok |-> returned.ok /\ \A k \in 1..Len(logs) : logs[k].ok,
         entry |-> [call |-> call.name,
                    gasUsed |-> raw.gasUsed,
                    response |-> [defined |-> returned.defined,
                                  text |-> returned.text],
                    logs |-> [k \in 1..Len(logs) |->
                                 [eventName |-> logs[k].eventName,
                                  args |-> logs[k].args]],
                    traces |-> raw.traces]]

\* the try block of handleFunctionCalls after the response arrived: the output
\* array, or a throw (ok = FALSE) of one of the decoders
DecodeResults(iface, parsedCalls, results) ==
    LET each == [k \in 1..Len(results) |-> DecodeOne(iface, parsedCalls[k], results[k])]
    IN  [ok |-> \A k \in 1..Len(each) : each[k].ok,
         output |-> [k \in 1..Len(each) |-> each[k].entry]]

\* array.splice(index, 1), index counted from 0
Splice(arr, index) ==
    IF index < Len(arr)
    THEN SubSeq(arr, 1, index) \o SubSeq(arr, index + 2, Len(arr))
    ELSE arr

\* the delete branch without result.splice(index, 1)
DeleteBranchKeepsResult(calls, res, index) ==
    [functionCalls |-> Splice(calls, index), result |-> res]

\* the delete branch of handleFunctionCallsChange: newCalls.splice(index, 1)
\* on the copy of the call list, result.splice(index, 1) on the result list
DeleteBranch(calls, res, index) ==
    [functionCalls |-> Splice(calls, index), result |-> Splice(res, index)]

----------------------------------------------------------------------------
(* The state machine *)

\* the state after the first render and its effects: the compile effect has
\* started its timer, the execute effect found no bytecode
Init ==
    /\ solidityCode = defaultSolidityCode
    /\ functionCalls = defaultFunctionCalls
    /\ bytecode = ""
    /\ abi = <<>>
    /\ result = <<>>
    /\ compilationErrors = <<>>
    /\ compileTimers = CompileEffect({}, defaultSolidityCode)
    /\ compileReqs = {}
    /\ compileIssued = 0
    /\ execTimers = ExecEffect({}, "", <<>>, defaultFunctionCalls)
    /\ execReqs = {}
    /\ execIssued = 0
    /\ nEdits = 0
    /\ nCallOps = 0
    /\ nBursts = 1
    /\ execCommitted = {}
    /\ resultFrom = 0
    /\ lastDelete = [index |-> -1, calls |-> 0, results |-> 0]

\* the editor calls setSolidityCode(text); the compile effect runs again
SetSolidityCode(text) ==
    /\ nEdits < MaxEdits
    /\ text # solidityCode
    /\ solidityCode' = text
    /\ compileTimers' = CompileEffect(compileTimers, text)
    /\ nEdits' = nEdits + 1
    /\ nBursts' = IF compileTimers = {} THEN nBursts + 1 ELSE nBursts
    /\ UNCHANGED <<functionCalls, bytecode, abi, result, compilationErrors,
                   compileReqs, compileIssued, execTimers, execReqs, execIssued,
                   nCallOps, execCommitted, resultFrom, lastDelete>>

\* a compile timer fires: compileSolidity runs up to its await
CompileTimerFires(timer) ==
    /\ compileIssued < MaxCompiles
    /\ compileTimers' = compileTimers \ {timer}
    /\ compileIssued' = compileIssued + 1
    /\ compileReqs' = compileReqs \cup
           {[id |-> compileIssued + 1, code |-> UpdatedCode(timer.code)]}
    /\ UNCHANGED <<solidityCode, functionCalls, bytecode, abi, result,
                   compilationErrors, execTimers, execReqs, execIssued,
                   nEdits, nCallOps, nBursts, execCommitted, resultFrom,
                   lastDelete>>

\* compileSolidity with a try block that also calls setResult([])
CompileSucceedsClearsResult(req, resp) ==
    LET held == [bytecode |-> bytecode, abi |-> abi,
                 compilationErrors |-> compilationErrors]
        new == CompileCommit(held, resp)
    IN  /\ compileReqs' = compileReqs \ {req}
        /\ bytecode' = new.bytecode
        /\ abi' = new.abi
        /\ compilationErrors' = new.compilationErrors
        /\ result' = <<>>
        /\ execTimers' = IF new.bytecode # bytecode
                         THEN ExecEffect(execTimers, new.bytecode, new.abi,
                                         functionCalls)
                         ELSE execTimers
        /\ UNCHANGED <<solidityCode, functionCalls, compileTimers,
                       compileIssued, execReqs, execIssued, nEdits, nCallOps,
                       nBursts, execCommitted, resultFrom, lastDelete>>

\* a compile request is answered: compileSolidity resumes in its try block,
\* then the execute effect runs if bytecode changed
CompileSucceeds(req, resp) ==
    LET held == [bytecode |-> bytecode, abi |-> abi,
                 compilationErrors |-> compilationErrors]
        new == CompileCommit(held, resp)
    IN  /\ compileReqs' = compileReqs \ {req}
        /\ bytecode' = new.bytecode
        /\ abi' = new.abi
        /\ compilationErrors' = new.compilationErrors
        /\ execTimers' = IF new.bytecode # bytecode
                         THEN ExecEffect(execTimers, new.bytecode, new.abi,
                                         functionCalls)
                         ELSE execTimers
        /\ UNCHANGED <<solidityCode, functionCalls, result, compileTimers,
                       compileIssued, execReqs, execIssued, nEdits, nCallOps,
                       nBursts, execCommitted, resultFrom, lastDelete>>

\* a compile request fails: compileSolidity resumes in its catch block
CompileFails(req, failure) ==
    /\ compileReqs' = compileReqs \ {req}
    /\ compilationErrors' = CompileCatch(compilationErrors, failure)
    /\ UNCHANGED <<solidityCode, functionCalls, bytecode, abi, result,
                   compileTimers, compileIssued, execTimers, execReqs,
                   execIssued, nEdits, nCallOps, nBursts, execCommitted,
                   resultFrom, lastDelete>>

\* an execute timer fires: handleFunctionCalls runs up to its await, with the
\* abi and bytecode of the render that scheduled it; it returns when the abi is
\* empty and throws when a call does not encode
ExecTimerFires(timer) ==
    LET calls == EncodeCalls(timer.abi, timer.parsedCalls)
        sends == /\ Len(timer.abi) > 0
                 /\ \A k \in 1..Len(calls) : calls[k].ok
    IN  /\ execIssued < MaxExecs
        /\ execTimers' = execTimers \ {timer}
        /\ execIssued' = IF sends THEN execIssued + 1 ELSE execIssued
        /\ execReqs' = IF sends
                       THEN execReqs \cup
                            {[id |-> execIssued + 1,
                              parsedCalls |-> timer.parsedCalls,
                              abi |-> timer.abi,
                              bytecode |-> timer.bytecode,
                              calls |-> [k \in 1..Len(calls) |->
                                  [calldata |-> calls[k].calldata,
                                   value |-> calls[k].value,
                                   caller |-> calls[k].caller]]]}
                       ELSE execReqs
        /\ UNCHANGED <<solidityCode, functionCalls, bytecode, abi, result,
                       compilationErrors, compileTimers, compileReqs,
                       compileIssued, nEdits, nCallOps, nBursts, execCommitted,
                       resultFrom, lastDelete>>

\* an execute request is answered: handleFunctionCalls resumes in its try block
ExecSucceeds(req, results) ==
    LET decoded == DecodeResults(req.abi, req.parsedCalls, results)
    IN  /\ execReqs' = execReqs \ {req}
        /\ result' = IF decoded.ok THEN decoded.output ELSE result
        /\ execCommitted' = IF decoded.ok THEN execCommitted \cup {req.id}
                            ELSE execCommitted
        /\ resultFrom' = IF decoded.ok THEN req.id ELSE resultFrom
        /\ UNCHANGED <<solidityCode, functionCalls, bytecode, abi,
                       compilationErrors, compileTimers, compileReqs,
                       compileIssued, execTimers, execIssued, nEdits, nCallOps,
                       nBursts, lastDelete>>

\* an execute request fails: handleFunctionCalls resumes in its catch block
ExecFails(req) ==
    /\ execReqs' = execReqs \ {req}
    /\ UNCHANGED <<solidityCode, functionCalls, bytecode, abi, result,
                   compilationErrors, compileTimers, compileReqs, compileIssued,
                   execTimers, execIssued, nEdits, nCallOps, nBursts,
                   execCommitted, resultFrom, lastDelete>>

\* addFunctionCall, then the execute effect
AddFunctionCall ==
    /\ nCallOps < MaxCallOps
    /\ functionCalls' = Append(functionCalls, <<>>)
    /\ execTimers' = ExecEffect(execTimers, bytecode, abi, functionCalls')
    /\ nCallOps' = nCallOps + 1
    /\ UNCHANGED <<solidityCode, bytecode, abi, result, compilationErrors,
                   compileTimers, compileReqs, compileIssued, execReqs,
                   execIssued, nEdits, nBursts, execCommitted, resultFrom,
                   lastDelete>>

\* handleFunctionCallsChange(e, index) with e an event whose target.value is
\* text, then the execute effect
UpdateFunctionCall(text, index) ==
    /\ nCallOps < MaxCallOps
    /\ functionCalls' = [functionCalls EXCEPT ![index + 1] = text]
    /\ execTimers' = ExecEffect(execTimers, bytecode, abi, functionCalls')
    /\ nCallOps' = nCallOps + 1
    /\ UNCHANGED <<solidityCode, bytecode, abi, result, compilationErrors,
                   compileTimers, compileReqs, compileIssued, execReqs,
                   execIssued, nEdits, nBursts, execCommitted, resultFrom,
                   lastDelete>>

\* handleFunctionCallsChange(null, index), then the execute effect
DeleteFunctionCall(index) ==
    /\ nCallOps < MaxCallOps
    /\ functionCalls' = DeleteBranch(functionCalls, result, index).functionCalls
    /\ result' = DeleteBranch(functionCalls, result, index).result
    /\ execTimers' = ExecEffect(execTimers, bytecode, abi, functionCalls')
    /\ nCallOps' = nCallOps + 1
    /\ lastDelete' = [index |-> index, calls |-> Len(functionCalls),
                      results |-> Len(result)]
    /\ UNCHANGED <<solidityCode, bytecode, abi, compilationErrors,
                   compileTimers, compileReqs, compileIssued, execReqs,
                   execIssued, nEdits, nBursts, execCommitted, resultFrom>>

Next ==
    \/ \E text \in Texts : SetSolidityCode(text)
    \/ \E timer \in compileTimers : CompileTimerFires(timer)
    \/ \E req \in compileReqs : \E resp \in CompileResponses :
           CompileSucceeds(req, resp)
    \/ \E req \in compileReqs : \E failure \in CompileFailures :
           CompileFails(req, failure)
    \/ \E timer \in execTimers : ExecTimerFires(timer)
    \/ \E req \in execReqs : \E results \in ExecResponses(req.calls) :
           ExecSucceeds(req, results)
    \/ \E req \in execReqs : ExecFails(req)
    \/ AddFunctionCall
    \/ \E text \in EditLines : \E index \in 0..(Len(functionCalls) - 1) :
           UpdateFunctionCall(text, index)
    \/ \E index \in 0..(Len(functionCalls) - 1) : DeleteFunctionCall(index)

Spec == Init /\ [][Next]_vars

(* The compile lane alone: source edits, the compile timer, and the compile
   responses. These actions read and write no variable of the call-list lane
   except through the execution effect they re-run, so every compile-lane
   behaviour of Spec is a behaviour of SpecCompile. *)
NextCompile ==
    \/ \E text \in Texts : SetSolidityCode(text)
    \/ \E timer \in compileTimers : CompileTimerFires(timer)
    \/ \E req \in compileReqs : \E resp \in CompileResponses :
           CompileSucceeds(req, resp)
    \/ \E req \in compileReqs : \E failure \in CompileFailures :
           CompileFails(req, failure)

SpecCompile == Init /\ [][NextCompile]_vars

(* The page with the source left as loaded: the one initial compile, then
   call-list edits and executions. *)
NextCalls ==
    \/ \E timer \in compileTimers : CompileTimerFires(timer)
    \/ \E req \in compileReqs : \E resp \in CompileResponses :
           CompileSucceeds(req, resp)
    \/ \E timer \in execTimers : ExecTimerFires(timer)
    \/ \E req \in execReqs : \E results \in ExecResponses(req.calls) :
           ExecSucceeds(req, results)
    \/ \E req \in execReqs : ExecFails(req)
    \/ AddFunctionCall
    \/ \E text \in EditLines : \E index \in 0..(Len(functionCalls) - 1) :
           UpdateFunctionCall(text, index)
    \/ \E index \in 0..(Len(functionCalls) - 1) : DeleteFunctionCall(index)

SpecCalls == Init /\ [][NextCalls]_vars

(* The two lanes with the call list left as loaded: source edits, compiles
   and executions. *)
NextLanes ==
    \/ \E text \in Texts : SetSolidityCode(text)
    \/ \E timer \in compileTimers : CompileTimerFires(timer)
    \/ \E req \in compileReqs : \E resp \in CompileResponses :
           CompileSucceeds(req, resp)
    \/ \E req \in compileReqs : \E failure \in CompileFailures :
           CompileFails(req, failure)
    \/ \E timer \in execTimers : ExecTimerFires(timer)
    \/ \E req \in execReqs : \E results \in ExecResponses(req.calls) :
           ExecSucceeds(req, results)
    \/ \E req \in execReqs : ExecFails(req)

SpecLanes == Init /\ [][NextLanes]_vars

(* The compile lane when every request is answered successfully with at least
   one unit: a pending timer fires (setTimeout), a request in flight is
   answered (the premise of the liveness of the lane). *)
UnitResponses == {resp \in CompileResponses : Len(resp.data) > 0}

NextCompileAnswered ==
    \/ \E text \in Texts : SetSolidityCode(text)
    \/ \E timer \in compileTimers : CompileTimerFires(timer)
    \/ \E req \in compileReqs : \E resp \in UnitResponses :
           CompileSucceeds(req, resp)

SpecCompileLive ==
    /\ Init
    /\ [][NextCompileAnswered]_vars
    /\ WF_vars(\E timer \in compileTimers : CompileTimerFires(timer))
    /\ WF_vars(\E req \in compileReqs : \E resp \in UnitResponses :
                   CompileSucceeds(req, resp))

(* The parser on typed lines: the page whose call list the user has typed
   before the first compile response arrived (the execute effect schedules
   nothing while bytecode is empty), then the compile that makes the execute
   effect parse the list. *)
InitParse ==
    /\ solidityCode = defaultSolidityCode
    /\ functionCalls \in TypedCallLists
    /\ bytecode = ""
    /\ abi = <<>>
    /\ result = <<>>
    /\ compilationErrors = <<>>
    /\ compileTimers = CompileEffect({}, defaultSolidityCode)
    /\ compileReqs = {}
    /\ compileIssued = 0
    /\ execTimers = ExecEffect({}, "", <<>>, functionCalls)
    /\ execReqs = {}
    /\ execIssued = 0
    /\ nEdits = 0
    /\ nCallOps = 0
    /\ nBursts = 1
    /\ execCommitted = {}
    /\ resultFrom = 0
    /\ lastDelete = [index |-> -1, calls |-> 0, results |-> 0]

NextParse ==
    \/ \E timer \in compileTimers : CompileTimerFires(timer)
    \/ \E req \in compileReqs : \E resp \in CompileResponses :
           CompileSucceeds(req, resp)

SpecParse == InitParse /\ [][NextParse]_vars

----------------------------------------------------------------------------
(* Properties *)

\* C1: a compile response (success or failure) of a request that is no longer
\* the most recently issued one changes none of abi, bytecode and
\* compilationErrors.
C1_StaleCompileResponseDiscarded ==
    [][\A req \in compileReqs :
          (req.id < compileIssued /\ req \notin compileReqs')
          => UNCHANGED <<abi, bytecode, compilationErrors>>]_vars

\* C2: the response of an execute request A never overwrites the result list
\* of a request B issued after A: the result list is the output of the last
\* issued of the requests whose output was committed.
C2_ExecResponsesInIssueOrder ==
    \A b \in execCommitted : b <= resultFrom

\* C3: a source-text change clears the pending compile timer, so at most one
\* timer is pending and it holds the text of the last edit; each burst of
\* edits sends exactly one compile request, which carries the pragma line
\* followed by the text of the last edit and leaves no timer pending.
C3_OneCompilePerBurst ==
    /\ [](/\ Cardinality(compileTimers) <= 1
          /\ \A timer \in compileTimers : timer.code = solidityCode
          /\ compileIssued + Cardinality(compileTimers) = nBursts)
    /\ [][compileIssued' # compileIssued
          => /\ compileTimers' = {}
             /\ compileReqs' \ compileReqs =
                    {[id |-> compileIssued + 1,
                      code |-> <<"pragma solidity 0.8.26;", "\n">> \o solidityCode]}]_vars

\* C3, witness: the timer of the first render and two edits made one burst,
\* which has sent its one compile request.
C3_Witness ==
    /\ nEdits >= 2
    /\ nBursts = 1
    /\ compileIssued = 1
    /\ compileTimers = {}

\* C4: every entry of the result list was produced from the call-list entry
\* at the same index.
C4_ResultsAlignedWithCalls ==
    \A i \in 1..Len(result) :
        /\ i <= Len(functionCalls)
        /\ LET parsed == ParseLine(functionCalls[i])
           IN  parsed # <<>> /\ parsed[1].name = result[i].call

\* C5: handleFunctionCallsChange(null, i) removes the entry at index i of the
\* call list and the entry at index i of the result list (if it has one) and
\* keeps every other entry of both lists in order.
C5_DeleteRemovesExactlyIndex ==
    [][\A index \in 0..(Len(functionCalls) - 1) :
          DeleteFunctionCall(index)
          => LET i == index + 1
             IN  /\ Len(functionCalls') = Len(functionCalls) - 1
                 /\ \A k \in 1..Len(functionCalls') :
                        functionCalls'[k] = functionCalls[IF k < i THEN k ELSE k + 1]
                 /\ Len(result') = IF i <= Len(result) THEN Len(result) - 1
                                   ELSE Len(result)
                 /\ \A k \in 1..Len(result') :
                        result'[k] = result[IF k < i THEN k ELSE k + 1]]_vars

\* C5, witness: the entry deleted last had a result, with results before and
\* after it, and both lists are one entry shorter.
C5_Witness ==
    /\ lastDelete.index >= 1
    /\ lastDelete.results > lastDelete.index + 1
    /\ Len(result) = lastDelete.results - 1
    /\ Len(functionCalls) = lastDelete.calls - 1

\* the entry of a call whose return data may fail to decode: its response is
\* then absent
EntryToleratingReturn(iface, call, raw) ==
    LET one == DecodeOne(iface, call, raw)
    IN  IF DecodeFunctionResult(iface, call.name, raw.result).ok THEN one.entry
        ELSE [one.entry EXCEPT !.response = [defined |-> FALSE, text |-> ""]]

\* C6: when the return data of a call of an execute response fails to decode
\* (and every log decodes), the output is still committed: that call's
\* response is absent and every other call is decoded.
C6_ReturnDecodeFailureIsPerCall ==
    [][\A req \in execReqs : \A results \in ExecResponses(req.calls) :
          (/\ ExecSucceeds(req, results)
           /\ \A k \in 1..Len(results) : \A j \in 1..Len(results[k].logs) :
                  DecodeEventLog(req.abi, results[k].logs[j]).ok)
          => result' = [k \in 1..Len(results) |->
                           EntryToleratingReturn(req.abi, req.parsedCalls[k],
                                                 results[k])]]_vars

\* the entry of a call whose logs may match no event: such a log is carried
\* as the raw log
EntryToleratingLogs(iface, call, raw) ==
    LET one == DecodeOne(iface, call, raw)
    IN  [one.entry EXCEPT !.logs =
            [j \in 1..Len(raw.logs) |->
                IF DecodeEventLog(iface, raw.logs[j]).ok THEN one.entry.logs[j]
                ELSE raw.logs[j]]]

\* C7: when a raw log of an execute response matches no event of the
\* interface (and every return data decodes), the output is still committed:
\* that log is carried raw, a matching log is carried decoded.
C7_UnknownLogCarriedRaw ==
    [][\A req \in execReqs : \A results \in ExecResponses(req.calls) :
          (/\ ExecSucceeds(req, results)
           /\ \A k \in 1..Len(results) :
                  DecodeFunctionResult(req.abi, req.parsedCalls[k].name,
                                       results[k].result).ok)
          => result' = [k \in 1..Len(results) |->
                           EntryToleratingLogs(req.abi, req.parsedCalls[k],
                                               results[k])]]_vars

\* C8: a failed compile request leaves abi and bytecode unchanged and replaces
\* the diagnostics by one diagnostic of type Error that carries the failure's
\* message (if it has one).
C8_CompileFailureSynthesizesDiagnostic ==
    [][\A req \in compileReqs : \A failure \in CompileFailures :
          CompileFails(req, failure)
          => /\ UNCHANGED <<abi, bytecode>>
             /\ Len(compilationErrors') = 1
             /\ compilationErrors'[1].errorType = "Error"
             /\ (failure.message # "" =>
                    compilationErrors'[1].message = failure.message)]_vars

\* C9: the held abi and bytecode are those of one compiled unit, or both are
\* still the initial empty values.
C9_AbiAndBytecodePaired ==
    \/ abi = <<>> /\ bytecode = ""
    \/ \E resp \in CompileResponses : \E k \in 1..Len(resp.data) :
           /\ bytecode = resp.data[k].bytecode
           /\ JsonParse(resp.data[k].abi).ok
           /\ abi = JsonParse(resp.data[k].abi).value

\* C10: a successful compile response with at least one unit makes bytecode
\* and abi those of the last unit and the diagnostics the returned list; one
\* with no unit leaves abi and bytecode and makes the diagnostics the returned
\* list.
C10_SuccessTakesLastUnit ==
    [][\A req \in compileReqs : \A resp \in CompileResponses :
          CompileSucceeds(req, resp)
          => /\ compilationErrors' = resp.errors
             /\ IF Len(resp.data) >= 1
                THEN LET lastUnit == resp.data[Len(resp.data)]
                     IN  /\ bytecode' = lastUnit.bytecode
                         /\ JsonParse(lastUnit.abi).ok
                         /\ abi' = JsonParse(lastUnit.abi).value
                ELSE UNCHANGED <<abi, bytecode>>]_vars

\* C11: no execute request is sent at a moment when the call list yields no
\* parsed call or the held bytecode is empty, also when the timer that sends
\* it was started before the call list or the bytecode became so.
C11_NoExecuteWithoutCallsOrBytecode ==
    [][execIssued' # execIssued
       => /\ bytecode # ""
          /\ Len(ParseCalls(functionCalls)) > 0]_vars

\* the k-th smallest element of a set of numbers
NthOf(S, k) == CHOOSE x \in S : Cardinality({y \in S : y < x}) = k - 1

\* the line holds an identifier character, an opening parenthesis right after
\* it and a closing parenthesis later on, no line terminator in between
LineHasCallForm(line) ==
    \E p \in 2..Len(line) : \E c \in (p + 1)..Len(line) :
        /\ line[p] = "(" /\ line[c] = ")" /\ IsWordChar(line[p - 1])
        /\ \A k \in (p + 1)..(c - 1) : ~IsLineTerminator(line[k])

\* the whole line is identifier(argument list)
IsWholeCall(line) ==
    /\ Len(line) >= 3
    /\ line[Len(line)] = ")"
    /\ \E p \in 2..(Len(line) - 1) :
           /\ line[p] = "("
           /\ \A k \in 1..(p - 1) : IsWordChar(line[k])
           /\ \A k \in (p + 1)..(Len(line) - 1) : ~IsLineTerminator(line[k])

\* the argument list of the text between the parentheses: the pieces between
\* the commas, each without its outer white space, the blank pieces left out
ArgsOf(inner) ==
    LET cuts == {0, Len(inner) + 1} \cup {k \in 1..Len(inner) : inner[k] = ","}
        PieceAfter(a) == SubSeq(inner, a + 1, Min({x \in cuts : x > a}) - 1)
        Inked(piece) == {k \in 1..Len(piece) : ~IsWhiteSpace(piece[k])}
        Stripped(piece) == SubSeq(piece, Min(Inked(piece)), Max(Inked(piece)))
        kept == {a \in cuts \ {Len(inner) + 1} : Inked(PieceAfter(a)) # {}}
    IN  [k \in 1..Cardinality(kept) |-> Stripped(PieceAfter(NthOf(kept, k)))]

\* out is what the claim allows for the line: nothing when the line lacks the
\* form, else one call whose name is an identifier of the line ending at an
\* opening parenthesis and whose args are the list of the text up to a closing
\* parenthesis; the whole identifier and the whole text for a whole-line call
CallDescribes(line, out) ==
    IF ~LineHasCallForm(line) THEN out = <<>>
    ELSE /\ Len(out) = 1
         /\ \E s \in 1..Len(line) : \E p \in (s + 1)..Len(line) :
            \E c \in (p + 1)..Len(line) :
                /\ line[p] = "(" /\ line[c] = ")"
                /\ \A k \in s..(p - 1) : IsWordChar(line[k])
                /\ \A k \in (p + 1)..(c - 1) : ~IsLineTerminator(line[k])
                /\ IsWholeCall(line) => (s = 1 /\ c = Len(line))
                /\ out[1].name = SubSeq(line, s, p - 1)
                /\ out[1].args = ArgsOf(SubSeq(line, p + 1, c - 1))

\* calls holds the call of every line that gives one, in the order of the lines
InLineOrder(lines, calls) ==
    \E pick \in SUBSET (1..Len(lines)) :
        /\ Cardinality(pick) = Len(calls)
        /\ \A i \in (1..Len(lines)) \ pick : ParseLine(lines[i]) = <<>>
        /\ \A k \in 1..Len(calls) : ParseLine(lines[NthOf(pick, k)]) = <<calls[k]>>

BuiltFrom(req, timer) ==
    /\ Len(req.calls) = Len(timer.parsedCalls)
    /\ \A k \in 1..Len(req.calls) :
           /\ req.calls[k].calldata =
                  EncodeFunctionData(timer.abi, timer.parsedCalls[k]).calldata
           /\ req.calls[k].calldata[1] = timer.parsedCalls[k].name
           /\ req.calls[k].value = "0"
           /\ req.calls[k].caller = "0x0000000000000000000000000000000000000000"

\* C13: every execute request that is sent holds one encoded call per parsing
\* line of the call list at scheduling time, in line order, none for the
\* other lines, each with value "0" and the all-zero sender, and it carries
\* the held bytecode.
C13_RequestBuiltFromParsingLines ==
    [][/\ \A timer \in execTimers' \ execTimers :
              InLineOrder(functionCalls', timer.parsedCalls)
       /\ \A req \in execReqs' \ execReqs :
              /\ \E timer \in execTimers \ execTimers' : BuiltFrom(req, timer)
              /\ req.bytecode = bytecode]_vars

\* C14: the two lanes write disjoint state: a step that commits a compile
\* response (success or failure) leaves the result list and the call list
\* unchanged; a step that commits an execute response (success or failure)
\* leaves the interface, the bytecode and the diagnostics unchanged.
C14_LanesWriteDisjointState ==
    [][/\ (compileReqs' # compileReqs /\ compileReqs' \subseteq compileReqs)
          => UNCHANGED <<result, functionCalls>>
       /\ (execReqs' # execReqs /\ execReqs' \subseteq execReqs)
          => UNCHANGED <<abi, bytecode, compilationErrors>>]_vars

\* C14, witness: both compile responses and an execute response have been
\* committed, and the state of each lane is not its initial one
C14_Witness ==
    /\ compileIssued = 2 /\ compileReqs = {}
    /\ resultFrom >= 1 /\ execReqs = {}
    /\ Len(result) = 4 /\ Len(functionCalls) = 4
    /\ abi # <<>> /\ bytecode # "" /\ compilationErrors # <<>>

\* C15: when an execute request fails at the transport level, the diagnostics
\* become a single synthesized error diagnostic, and the result list, the
\* interface and the bytecode stay as they were.
C15_ExecuteFailureSynthesizesDiagnostic ==
    [][(\E req \in execReqs : ExecFails(req))
       => /\ Len(compilationErrors') = 1
          /\ compilationErrors'[1].errorType = "Error"
          /\ UNCHANGED <<result, abi, bytecode>>]_vars

C17_EncodingFailureSendsNothing ==
    [][\A timer \in execTimers :
          (/\ ExecTimerFires(timer)
           /\ \E k \in 1..Len(timer.parsedCalls) :
                  ~EncodeFunctionData(abi, timer.parsedCalls[k]).ok)
          => /\ execReqs' = execReqs
             /\ execIssued' = execIssued
             /\ UNCHANGED <<result, abi, bytecode, compilationErrors>>]_vars

\* the interface and the bytecode are those of the last unit of one compile
\* response
FromOneCompileResult(iface, bc) ==
    \E resp \in CompileResponses :
        /\ Len(resp.data) > 0
        /\ bc = resp.data[Len(resp.data)].bytecode
        /\ JsonParse(resp.data[Len(resp.data)].abi).ok
        /\ iface = JsonParse(resp.data[Len(resp.data)].abi).value

\* C18: for every execute request in flight, the interface that encoded its
\* calls and decodes its response and the bytecode sent with it come from the
\* same compile result, whatever compile responses are committed meanwhile.
C18_RequestUsesOneCompileResult ==
    \A req \in execReqs :
        /\ FromOneCompileResult(req.abi, req.bytecode)
        /\ \A k \in 1..Len(req.calls) :
               req.calls[k].calldata =
                   EncodeFunctionData(req.abi, req.parsedCalls[k]).calldata

\* C19: liveness of the compile lane. A pending timer whose text stays the
\* source text fires and its request, the pragma line followed by that text,
\* is sent; every request is answered; the answer to the request issued last
\* makes the held bytecode and interface those of its last unit, and once it
\* is answered they remain so.
C19_CompileLaneSettles ==
    /\ \A text \in Texts :
           (compileTimers = {[code |-> text]} /\ compileIssued < MaxCompiles)
           ~> \/ solidityCode # text
              \/ \E req \in compileReqs :
                     req.id = compileIssued /\ req.code = UpdatedCode(text)
    /\ <>[](compileReqs = {})
    /\ [][\A req \in compileReqs : \A resp \in UnitResponses :
              (CompileSucceeds(req, resp) /\ req.id = compileIssued)
              => /\ bytecode' = resp.data[Len(resp.data)].bytecode
                 /\ JsonParse(resp.data[Len(resp.data)].abi).ok
                 /\ abi' = JsonParse(resp.data[Len(resp.data)].abi).value]_vars
    /\ [][(/\ compileTimers = {}
            /\ compileIssued > 0
            /\ \A req \in compileReqs : req.id # compileIssued)
           => UNCHANGED <<abi, bytecode>>]_vars

=============================================================================
